---- MODULE Spec2Model ----
(***************************************************************************)
(* Model of the assistant bot of src/main.py: the field classes (Phone,    *)
(* Birthday), Record, AddressBook with get_upcoming_birthdays, the         *)
(* input_error decorator, the command handlers and the command loop.       *)
(*                                                                         *)
(* A string is a sequence of one-character strings, so that the regular    *)
(* expression of Phone and the format of Birthday are computed, not        *)
(* assumed.  A date is a record [year, month, day] with the proleptic      *)
(* Gregorian arithmetic of datetime.date.                                  *)
(***************************************************************************)
EXTENDS Integers, Sequences, FiniteSets, TLC

(***************************************************************************)
(* Bounds of the model.                                                    *)
(***************************************************************************)
\* longest phone list a record is grown to by the model
MaxPhones == 2
\* first year 'today' is drawn from, and the number of consecutive years
FirstYear == 2023
NumYears == 2
\* the scheduler is exercised on birthdays whose month/day lies from
\* MaxBack days before today to MaxAhead days after today
MaxBack == 2
MaxAhead == 10

(***************************************************************************)
(* Characters and strings.                                                 *)
(***************************************************************************)
AsciiDigits == {"0", "1", "2", "3", "4", "5", "6", "7", "8", "9"}

\* \d of a str pattern matches every Unicode decimal digit; "U+0663" stands
\* for one non-ASCII decimal digit (ARABIC-INDIC DIGIT THREE).
DigitChars == AsciiDigits \cup {"U+0663"}

DigitVal(c) ==
  CASE c = "0" -> 0 [] c = "1" -> 1 [] c = "2" -> 2 [] c = "3" -> 3
    [] c = "4" -> 4 [] c = "5" -> 5 [] c = "6" -> 6 [] c = "7" -> 7
    [] c = "8" -> 8 [] c = "9" -> 9 [] c = "U+0663" -> 3

DigitChar(n) ==
  CASE n = 0 -> "0" [] n = 1 -> "1" [] n = 2 -> "2" [] n = 3 -> "3"
    [] n = 4 -> "4" [] n = 5 -> "5" [] n = 6 -> "6" [] n = 7 -> "7"
    [] n = 8 -> "8" [] n = 9 -> "9"

\* the value of Record.birthday before add_birthday
None == << >>

(***************************************************************************)
(* class Phone: re.fullmatch(r'\d{10}', value)                             *)
(***************************************************************************)
PhoneLen == 10

IsPhone_Mut(value) == Len(value) >= PhoneLen

IsPhone(value) ==
  /\ Len(value) = PhoneLen
  /\ \A i \in 1..Len(value) : value[i] \in DigitChars

(***************************************************************************)
(* datetime.date                                                           *)
(***************************************************************************)
IsLeap(y) == y % 4 = 0 /\ (y % 100 # 0 \/ y % 400 = 0)

DaysInMonth(y, m) ==
  IF m = 2 THEN (IF IsLeap(y) THEN 29 ELSE 28)
  ELSE IF m \in {4, 6, 9, 11} THEN 30 ELSE 31

DaysBeforeYear(y) ==
  (y - 1) * 365 + ((y - 1) \div 4) - ((y - 1) \div 100) + ((y - 1) \div 400)

RECURSIVE DaysBeforeMonth(_, _)
DaysBeforeMonth(y, m) ==
  IF m = 1 THEN 0 ELSE DaysBeforeMonth(y, m - 1) + DaysInMonth(y, m - 1)

MkDate(y, m, d) == [year |-> y, month |-> m, day |-> d]

\* the check of the date constructor (MINYEAR = 1, MAXYEAR = 9999)
IsDate(y, m, d) ==
  /\ y \in 1..9999
  /\ m \in 1..12
  /\ d >= 1 /\ d <= DaysInMonth(y, m)

ToOrdinal(dt) ==
  DaysBeforeYear(dt.year) + DaysBeforeMonth(dt.year, dt.month) + dt.day

\* date.fromordinal, as _ord2ymd computes it
FromOrdinal(ord) ==
  LET n0   == ord - 1
      n400 == n0 \div 146097
      r400 == n0 % 146097
      n100 == r400 \div 36524
      r100 == r400 % 36524
      n4   == r100 \div 1461
      r4   == r100 % 1461
      n1   == r4 \div 365
      n    == r4 % 365
      year == n400 * 400 + 1 + n100 * 100 + n4 * 4 + n1
  IN  IF n1 = 4 \/ n100 = 4
      THEN MkDate(year - 1, 12, 31)
      ELSE LET m0 == CHOOSE m \in 1..12 :
                       /\ DaysBeforeMonth(year, m) <= n
                       /\ n < DaysBeforeMonth(year, m) + DaysInMonth(year, m)
           IN  MkDate(year, m0, n - DaysBeforeMonth(year, m0) + 1)

\* date.weekday(): Monday = 0 .. Sunday = 6
Weekday(dt) == (ToOrdinal(dt) + 6) % 7

\* date + timedelta(days = k)
AddDays(dt, k) == FromOrdinal(ToOrdinal(dt) + k)

\* (a - b).days
DaysBetween(a, b) == ToOrdinal(a) - ToOrdinal(b)

DateLess(a, b) == ToOrdinal(a) < ToOrdinal(b)

\* date.replace(year = y): the date, or ValueError when y has no such day
ReplaceYear(dt, y) ==
  IF IsDate(y, dt.month, dt.day)
  THEN [ok |-> TRUE, date |-> MkDate(y, dt.month, dt.day)]
  ELSE [ok |-> FALSE, date |-> dt]

(***************************************************************************)
(* datetime.strptime(value, "%d.%m.%Y") and date.strftime("%d.%m.%Y")      *)
(***************************************************************************)
NonZero == AsciiDigits \ {"0"}

\* %d is 3[0-1]|[1-2]\d|0[1-9]|[1-9]| [1-9]
MatchesDay(s) ==
  \/ /\ Len(s) = 2
     /\ \/ s[1] = "3" /\ s[2] \in {"0", "1"}
        \/ s[1] \in {"1", "2"} /\ s[2] \in DigitChars
        \/ s[1] = "0" /\ s[2] \in NonZero
        \/ s[1] = " " /\ s[2] \in NonZero
  \/ Len(s) = 1 /\ s[1] \in NonZero

\* %m is 1[0-2]|0[1-9]|[1-9]
MatchesMonth(s) ==
  \/ /\ Len(s) = 2
     /\ \/ s[1] = "1" /\ s[2] \in {"0", "1", "2"}
        \/ s[1] = "0" /\ s[2] \in NonZero
  \/ Len(s) = 1 /\ s[1] \in NonZero

\* %Y is \d\d\d\d
MatchesYear(s) == Len(s) = 4 /\ \A i \in 1..4 : s[i] \in DigitChars

RECURSIVE ToInt(_)
ToInt(s) ==
  IF s = << >> THEN 0
  ELSE IF s[Len(s)] = " " THEN 0
  ELSE 10 * ToInt(SubSeq(s, 1, Len(s) - 1)) + DigitVal(s[Len(s)])

Dots(s) == {i \in 1..Len(s) : s[i] = "."}

\* [ok, date]: ok is FALSE where strptime raises ValueError
Strptime(s) ==
  LET bad == [ok |-> FALSE, date |-> MkDate(1, 1, 1)]
  IN  IF Cardinality(Dots(s)) # 2 THEN bad
      ELSE LET i1 == CHOOSE i \in Dots(s) : \A j \in Dots(s) : i <= j
               i2 == CHOOSE i \in Dots(s) : \A j \in Dots(s) : j <= i
               ds == SubSeq(s, 1, i1 - 1)
               ms == SubSeq(s, i1 + 1, i2 - 1)
               ys == SubSeq(s, i2 + 1, Len(s))
           IN  IF ~(MatchesDay(ds) /\ MatchesMonth(ms) /\ MatchesYear(ys))
               THEN bad
               ELSE IF ~IsDate(ToInt(ys), ToInt(ms), ToInt(ds)) THEN bad
               ELSE [ok |-> TRUE,
                     date |-> MkDate(ToInt(ys), ToInt(ms), ToInt(ds))]

TwoDigits(n) == << DigitChar(n \div 10), DigitChar(n % 10) >>

FourDigits(n) ==
  << DigitChar(n \div 1000), DigitChar((n \div 100) % 10),
     DigitChar((n \div 10) % 10), DigitChar(n % 10) >>

Strftime(dt) ==
  TwoDigits(dt.day) \o << "." >> \o TwoDigits(dt.month) \o << "." >>
    \o FourDigits(dt.year)

(***************************************************************************)
(* Outcome of a call: exc is "" when the call returns, else the name of    *)
(* the exception it raises, with the message in msg.                       *)
(***************************************************************************)
Returns(v) == [exc |-> "", msg |-> "", value |-> v]

Raises(e, m, v) == [exc |-> e, msg |-> m, value |-> v]

(***************************************************************************)
(* class Birthday, class Record                                            *)
(***************************************************************************)
IsBirthday(value) == Strptime(value).ok

Record(name) == [name |-> name, phones |-> << >>, birthday |-> None]

add_phone(rec, phone) ==
  IF IsPhone(phone)
  THEN Returns([rec EXCEPT !.phones = Append(@, phone)])
  ELSE Raises("ValueError", "Phone must be 10 digits.", rec)

remove_phone(rec, phone) ==
  [rec EXCEPT !.phones = SelectSeq(@, LAMBDA p : p # phone)]

\* edit_phone_Mut stops at the first phone equal to old_phone
edit_phone_Mut(rec, old_phone, new_phone) ==
  IF ~IsPhone(new_phone)
  THEN Raises("ValueError", "Phone must be 10 digits.", rec)
  ELSE IF \E i \in 1..Len(rec.phones) : rec.phones[i] = old_phone
  THEN LET f == CHOOSE i \in 1..Len(rec.phones) :
                  /\ rec.phones[i] = old_phone
                  /\ \A j \in 1..(i - 1) : rec.phones[j] # old_phone
       IN  Returns([rec EXCEPT !.phones[f] = new_phone])
  ELSE Raises("ValueError", "Phone not found.", rec)

edit_phone(rec, old_phone, new_phone) ==
  IF ~IsPhone(new_phone)
  THEN Raises("ValueError", "Phone must be 10 digits.", rec)
  ELSE LET found  == \E i \in 1..Len(rec.phones) : rec.phones[i] = old_phone
           edited == [i \in 1..Len(rec.phones) |->
                        IF rec.phones[i] = old_phone THEN new_phone
                        ELSE rec.phones[i]]
       IN  IF found
           THEN Returns([rec EXCEPT !.phones = edited])
           ELSE Raises("ValueError", "Phone not found.", rec)

\* the first phone equal to the argument, or None
find_phone(rec, phone) ==
  IF \E i \in 1..Len(rec.phones) : rec.phones[i] = phone
  THEN rec.phones[CHOOSE i \in 1..Len(rec.phones) :
                    /\ rec.phones[i] = phone
                    /\ \A j \in 1..(i - 1) : rec.phones[j] # phone]
  ELSE None

add_birthday(rec, birthday) ==
  IF IsBirthday(birthday)
  THEN Returns([rec EXCEPT !.birthday = birthday])
  ELSE Raises("ValueError", "Invalid date format. Use DD.MM.YYYY", rec)

\* Record.__str__, as the list of its fields
RecordStr(rec) ==
  << rec.name >>
    \o (IF rec.birthday # None THEN << rec.birthday >> ELSE << >>)
    \o rec.phones

(***************************************************************************)
(* class AddressBook: data is a dict, modelled as the sequence of its      *)
(* (key, record) entries in insertion order.                               *)
(***************************************************************************)
Keys(data) == {data[i].key : i \in 1..Len(data)}

IndexOf(data, name) == CHOOSE i \in 1..Len(data) : data[i].key = name

\* add_record_Mut inserts a new entry without looking for the key
add_record_Mut(data, record) ==
  Append(data, [key |-> record.name, rec |-> record])

add_record(data, record) ==
  IF record.name \in Keys(data)
  THEN [data EXCEPT ![IndexOf(data, record.name)].rec = record]
  ELSE Append(data, [key |-> record.name, rec |-> record])

\* dict.get: found is FALSE for the None result
find(data, name) ==
  IF name \in Keys(data)
  THEN [found |-> TRUE, rec |-> data[IndexOf(data, name)].rec]
  ELSE [found |-> FALSE, rec |-> Record(name)]

delete(data, name) == SelectSeq(data, LAMBDA e : e.key # name)

\* 0 <= days_to_bday <= 7
InWindow_Mut(days) == 0 <= days /\ days <= 8

InWindow(days) == 0 <= days /\ days <= 7

\* the weekend branch: weekday() >= 5 moves to the next Monday
WeekendShift_Mut(dt) ==
  IF Weekday(dt) > 5 THEN AddDays(dt, 7 - Weekday(dt)) ELSE dt

WeekendShift(dt) ==
  IF Weekday(dt) >= 5 THEN AddDays(dt, 7 - Weekday(dt)) ELSE dt

\* this_year_bday after the roll-over, or the ValueError of date.replace
ThisYearBday(b_date, today) ==
  LET first == ReplaceYear(b_date, today.year)
  IN  IF ~first.ok THEN first
      ELSE IF DateLess(first.date, today)
      THEN ReplaceYear(first.date, today.year + 1)
      ELSE first

RECURSIVE UpcomingFrom(_, _, _, _)
UpcomingFrom(data, today, i, upcoming) ==
  IF i > Len(data) THEN Returns(upcoming)
  ELSE LET record == data[i].rec
       IN  IF record.birthday = None
           THEN UpcomingFrom(data, today, i + 1, upcoming)
           ELSE LET parsed == Strptime(record.birthday)
                    bday   == ThisYearBday(parsed.date, today)
                IN  IF ~parsed.ok
                    THEN Raises("ValueError", "does not match format", << >>)
                    ELSE IF ~bday.ok
                    THEN Raises("ValueError",
                                "day is out of range for month", << >>)
                    ELSE IF InWindow(DaysBetween(bday.date, today))
                    THEN UpcomingFrom(data, today, i + 1,
                           Append(upcoming,
                             [name |-> record.name,
                              congratulation_date |->
                                Strftime(WeekendShift(bday.date))]))
                    ELSE UpcomingFrom(data, today, i + 1, upcoming)

get_upcoming_birthdays(data, today) == UpcomingFrom(data, today, 1, << >>)

(***************************************************************************)
(* Words of the command language and the inputs the model draws from.      *)
(***************************************************************************)
W_close == << "c", "l", "o", "s", "e" >>

W_exit == << "e", "x", "i", "t" >>

W_hello == << "h", "e", "l", "l", "o" >>

W_add == << "a", "d", "d" >>

W_change == << "c", "h", "a", "n", "g", "e" >>

W_phone == << "p", "h", "o", "n", "e" >>

W_all == << "a", "l", "l" >>

W_add_birthday == << "a", "d", "d", "-", "b", "i", "r", "t", "h", "d", "a", "y" >>

W_show_birthday == << "s", "h", "o", "w", "-", "b", "i", "r", "t", "h", "d", "a", "y" >>

W_birthdays == << "b", "i", "r", "t", "h", "d", "a", "y", "s" >>

W_unknown == << "r", "e", "m", "o", "v", "e" >>

Ann == << "A", "n", "n" >>

Bob == << "B", "o", "b" >>

Names == {Ann, Bob}

\* two valid phones, nine digits, ten characters with a letter
P1 == << "1", "1", "1", "2", "2", "2", "3", "3", "3", "3" >>

P2 == << "4", "4", "4", "5", "5", "5", "6", "6", "6", "6" >>

PShort == << "1", "1", "1", "2", "2", "2", "3", "3", "3" >>

PLetter == << "1", "1", "1", "2", "2", "2", "3", "3", "a", "b" >>

\* ten decimal digits, the last one not ASCII
PUnicode == << "1", "1", "1", "2", "2", "2", "3", "3", "3", "U+0663" >>

\* eleven digits
PLong == << "1", "1", "1", "2", "2", "2", "3", "3", "3", "3", "4" >>

PhoneInputs == {P1, P2, PShort, PLetter}

ApiPhoneInputs == {P1, P2, PUnicode, PLong, PLetter, << >>}

\* birthdays: 29 February and 1 January; then a date in another format and
\* a day that no February has
B_Leap == << "2", "9", ".", "0", "2", ".", "2", "0", "0", "0" >>

B_NewYear == << "0", "1", ".", "0", "1", ".", "1", "9", "9", "0" >>

B_Iso == << "2", "0", "0", "0", "-", "0", "1", "-", "0", "1" >>

B_Feb30 == << "3", "0", ".", "0", "2", ".", "2", "0", "0", "0" >>

(***************************************************************************)
(* input_error and the command handlers.  A handler's outcome carries the  *)
(* store as the call leaves it, whether it returns or raises.              *)
(***************************************************************************)
Done(text, data, bk) ==
  [exc |-> "", msg |-> "", text |-> text, data |-> data, book |-> bk]

Fail(e, m, bk) ==
  [exc |-> e, msg |-> m, text |-> "", data |-> << >>, book |-> bk]

\* the string the wrapper returns; err marks the except branches
input_error(r) ==
  IF r.exc = "KeyError"
  THEN [text |-> "Contact not found.", data |-> << >>, err |-> TRUE]
  ELSE IF r.exc = "ValueError"
  THEN [text |-> r.msg, data |-> << >>, err |-> TRUE]
  ELSE IF r.exc = "IndexError"
  THEN [text |-> "Invalid command format.", data |-> << >>, err |-> TRUE]
  ELSE [text |-> r.text, data |-> r.data, err |-> FALSE]

\* a record found in the store is mutated in place
Mutated(bk, name, rec) ==
  IF name \in Keys(bk) THEN [bk EXCEPT ![IndexOf(bk, name)].rec = rec] ELSE bk

\* add_contact_Mut stores the record before it adds the phone
add_contact_Mut(args, bk) ==
  IF Len(args) < 2
  THEN Fail("ValueError", "Give me name and phone please.", bk)
  ELSE LET name   == args[1]
           phone  == args[2]
           f      == find(bk, name)
           record == IF f.found THEN f.rec ELSE Record(name)
           stored == add_record(bk, record)
           r      == add_phone(record, phone)
       IN  IF r.exc # "" THEN Fail(r.exc, r.msg, stored)
           ELSE Done("Contact added/updated.", << >>,
                     Mutated(stored, name, r.value))

add_contact(args, bk) ==
  IF Len(args) < 2
  THEN Fail("ValueError", "Give me name and phone please.", bk)
  ELSE LET name   == args[1]
           phone  == args[2]
           f      == find(bk, name)
           record == IF f.found THEN f.rec ELSE Record(name)
           r      == add_phone(record, phone)
           inbook == Mutated(bk, name, r.value)
       IN  IF r.exc # "" THEN Fail(r.exc, r.msg, inbook)
           ELSE Done("Contact added/updated.", << >>,
                     add_record(inbook, r.value))

\* change_contact_Mut creates the contact it does not find
change_contact_Mut(args, bk) ==
  IF Len(args) # 3
  THEN Fail("ValueError", "Give me name, old phone and new phone.", bk)
  ELSE LET name == args[1]
           f    == find(bk, name)
           r    == edit_phone(f.rec, args[2], args[3])
       IN  IF f.found
           THEN IF r.exc # "" THEN Fail(r.exc, r.msg, Mutated(bk, name, r.value))
                ELSE Done("Phone changed.", << >>, Mutated(bk, name, r.value))
           ELSE Fail("KeyError", "Contact not found.",
                     add_record(bk, Record(name)))

change_contact(args, bk) ==
  IF Len(args) # 3
  THEN Fail("ValueError", "Give me name, old phone and new phone.", bk)
  ELSE LET name == args[1]
           f    == find(bk, name)
           r    == edit_phone(f.rec, args[2], args[3])
       IN  IF f.found
           THEN IF r.exc # "" THEN Fail(r.exc, r.msg, Mutated(bk, name, r.value))
                ELSE Done("Phone changed.", << >>, Mutated(bk, name, r.value))
           ELSE Fail("KeyError", "Contact not found.", bk)

show_phone(args, bk) ==
  IF args = << >> THEN Fail("ValueError", "Enter contact name.", bk)
  ELSE LET f == find(bk, args[1])
       IN  IF f.found THEN Done("", << f.rec.phones >>, bk)
           ELSE Fail("KeyError", "Contact not found.", bk)

show_all(bk) ==
  IF bk = << >> THEN Done("No contacts found.", << >>, bk)
  ELSE Done("", [i \in 1..Len(bk) |-> RecordStr(bk[i].rec)], bk)

add_birthday_cmd(args, bk) ==
  IF Len(args) # 2
  THEN Fail("ValueError",
            "Give me name and birthday in DD.MM.YYYY format.", bk)
  ELSE LET name == args[1]
           f    == find(bk, name)
           r    == add_birthday(f.rec, args[2])
       IN  IF f.found
           THEN IF r.exc # ""
                THEN Fail(r.exc, r.msg, Mutated(bk, name, r.value))
                ELSE Done("Birthday added.", << >>,
                          Mutated(bk, name, r.value))
           ELSE Fail("KeyError", "Contact not found.", bk)

show_birthday(args, bk) ==
  IF args = << >> THEN Fail("ValueError", "Enter contact name.", bk)
  ELSE LET f == find(bk, args[1])
       IN  IF f.found /\ f.rec.birthday # None
           THEN Done("", << << f.rec.birthday >> >>, bk)
           ELSE IF f.found THEN Done("No birthday set.", << >>, bk)
           ELSE Done("Contact not found.", << >>, bk)

birthdays(args, bk, now) ==
  LET up == get_upcoming_birthdays(bk, now)
  IN  IF up.exc # "" THEN Fail(up.exc, up.msg, bk)
      ELSE IF up.value = << >>
      THEN Done("No birthdays in next week.", << >>, bk)
      ELSE Done("", [i \in 1..Len(up.value) |->
                       << up.value[i].name,
                          up.value[i].congratulation_date >>], bk)

(***************************************************************************)
(* parse_input: a line is the sequence of its whitespace runs (WS) and     *)
(* words; strip().split() keeps the words.                                 *)
(***************************************************************************)
WS == << " " >>

parse_input(input_str) == SelectSeq(input_str, LAMBDA w : w # WS)

RECURSIVE Join(_)
Join(tokens) ==
  IF Len(tokens) <= 1 THEN tokens
  ELSE << Head(tokens), WS >> \o Join(Tail(tokens))

(***************************************************************************)
(* State.                                                                  *)
(*   book      AddressBook.data                                            *)
(*   pc        "running", "exited" after close/exit, "crashed" after an    *)
(*             exception that nothing catches                              *)
(*   line      the line read last                                          *)
(*   output    the messages printed for that line                          *)
(*   today     the date get_upcoming_birthdays read last                   *)
(*   upcoming  the outcome of the last get_upcoming_birthdays              *)
(*   call      the last direct call of a Record / AddressBook method       *)
(***************************************************************************)
VARIABLES book, pc, line, output, today, upcoming, call

vars == << book, pc, line, output, today, upcoming, call >>

NoCall == [op |-> "", name |-> << >>, args |-> << >>, exc |-> "",
           msg |-> "", ret |-> << >>]

Msg(text) == [text |-> text, data |-> << >>, err |-> FALSE]

\* Ann is given both phones and the 29 February birthday, Bob one phone and
\* the 1 January birthday
TokenLists ==
  {<< >>}
    \cup {<< c >> : c \in {W_close, W_exit, W_hello, W_add, W_change, W_phone,
                           W_all, W_add_birthday, W_show_birthday,
                           W_birthdays, W_unknown}}
    \cup {<< c, Ann >> : c \in {W_add, W_change, W_phone, W_add_birthday,
                                W_show_birthday}}
    \cup {<< W_phone, Bob >>, << W_show_birthday, Bob >>,
          << W_add_birthday, Bob >>}
    \cup {<< W_add, Ann, p >> : p \in PhoneInputs}
    \cup {<< W_add, Bob, P1 >>, << W_add, Bob, PShort >>}
    \cup {<< W_add, Ann, P2, P1 >>, << W_phone, Bob, P1 >>}
    \cup {<< W_change, Ann, P1, P2 >>, << W_change, Ann, P2, P1 >>,
          << W_change, Ann, P1, P1 >>, << W_change, Ann, P1, PShort >>,
          << W_change, Ann, PShort, P1 >>,
          << W_change, Ann, PLetter, PLetter >>,
          << W_change, Bob, P2, P1 >>}
    \cup {<< W_add_birthday, Ann, b >> : b \in {B_Leap, B_Iso, B_Feb30}}
    \cup {<< W_add_birthday, Bob, B_NewYear >>,
          << W_add_birthday, Bob, B_Iso >>}

\* the lines typed: the words one blank apart, and some with more blanks
InputLines ==
  {Join(t) : t \in TokenLists}
    \cup {<< WS >>, << WS, W_hello, WS >>, << WS, W_all >>}

\* the dates the clock shows when the command loop runs `birthdays`
Todays ==
  {MkDate(FirstYear, 2, 27), MkDate(FirstYear, 12, 30),
   MkDate(FirstYear + 1, 2, 25), MkDate(FirstYear + 1, 3, 1)}

\* today and upcoming are locals of get_upcoming_birthdays: they hold a
\* value while the line read last is a `birthdays` line
NoToday == MkDate(1, 1, 1)

NoUpcoming == Returns(<< >>)

Init ==
  /\ book = << >>
  /\ pc = "running"
  /\ line = << >>
  /\ output = << Msg("Welcome to the assistant bot!") >>
  /\ today = NoToday
  /\ upcoming = NoUpcoming
  /\ call = NoCall

Command(l) == Head(parse_input(l))

Args(l) == Tail(parse_input(l))

WithinBounds(bk) == \A i \in 1..Len(bk) : Len(bk[i].rec.phones) <= MaxPhones

\* print(handler(args, book)) and the next turn of the loop
Printed(l, r) ==
  /\ WithinBounds(r.book)
  /\ line' = l
  /\ book' = r.book
  /\ output' = << input_error(r) >>
  /\ pc' = pc
  /\ call' = NoCall

\* command, *args = parse_input(user_input) on a line without words
EmptyLine(l) ==
  /\ pc = "running"
  /\ parse_input(l) = << >>
  /\ line' = l
  /\ output' = << >>
  /\ pc' = "crashed"
  /\ today' = NoToday
  /\ upcoming' = NoUpcoming
  /\ call' = NoCall
  /\ UNCHANGED book

Close(l) ==
  /\ pc = "running"
  /\ parse_input(l) # << >>
  /\ Command(l) \in {W_close, W_exit}
  /\ line' = l
  /\ output' = << Msg("Good bye!") >>
  /\ pc' = "exited"
  /\ today' = NoToday
  /\ upcoming' = NoUpcoming
  /\ call' = NoCall
  /\ UNCHANGED book

Hello(l) ==
  /\ pc = "running"
  /\ parse_input(l) # << >>
  /\ Command(l) = W_hello
  /\ line' = l
  /\ output' = << Msg("How can I help you?") >>
  /\ today' = NoToday
  /\ upcoming' = NoUpcoming
  /\ call' = NoCall
  /\ UNCHANGED << book, pc >>

Add(l) ==
  /\ pc = "running"
  /\ parse_input(l) # << >>
  /\ Command(l) = W_add
  /\ Printed(l, add_contact(Args(l), book))
  /\ today' = NoToday
  /\ upcoming' = NoUpcoming

Change(l) ==
  /\ pc = "running"
  /\ parse_input(l) # << >>
  /\ Command(l) = W_change
  /\ Printed(l, change_contact(Args(l), book))
  /\ today' = NoToday
  /\ upcoming' = NoUpcoming

Phone(l) ==
  /\ pc = "running"
  /\ parse_input(l) # << >>
  /\ Command(l) = W_phone
  /\ Printed(l, show_phone(Args(l), book))
  /\ today' = NoToday
  /\ upcoming' = NoUpcoming

All(l) ==
  /\ pc = "running"
  /\ parse_input(l) # << >>
  /\ Command(l) = W_all
  /\ Printed(l, show_all(book))
  /\ today' = NoToday
  /\ upcoming' = NoUpcoming

AddBirthday(l) ==
  /\ pc = "running"
  /\ parse_input(l) # << >>
  /\ Command(l) = W_add_birthday
  /\ Printed(l, add_birthday_cmd(Args(l), book))
  /\ today' = NoToday
  /\ upcoming' = NoUpcoming

ShowBirthday(l) ==
  /\ pc = "running"
  /\ parse_input(l) # << >>
  /\ Command(l) = W_show_birthday
  /\ Printed(l, show_birthday(Args(l), book))
  /\ today' = NoToday
  /\ upcoming' = NoUpcoming

\* `birthdays` when datetime.today() is now
Birthdays(l, now) ==
  /\ pc = "running"
  /\ parse_input(l) # << >>
  /\ Command(l) = W_birthdays
  /\ Printed(l, birthdays(Args(l), book, now))
  /\ today' = now
  /\ upcoming' = get_upcoming_birthdays(book, now)

Invalid(l) ==
  /\ pc = "running"
  /\ parse_input(l) # << >>
  /\ Command(l) \notin {W_close, W_exit, W_hello, W_add, W_change, W_phone,
                        W_all, W_add_birthday, W_show_birthday, W_birthdays}
  /\ line' = l
  /\ output' = << Msg("Invalid command.") >>
  /\ today' = NoToday
  /\ upcoming' = NoUpcoming
  /\ call' = NoCall
  /\ UNCHANGED << book, pc >>

Next ==
  \E l \in InputLines :
    \/ EmptyLine(l)
    \/ Close(l)
    \/ Hello(l)
    \/ Add(l)
    \/ Change(l)
    \/ Phone(l)
    \/ All(l)
    \/ AddBirthday(l)
    \/ ShowBirthday(l)
    \/ \E now \in Todays : Birthdays(l, now)
    \/ Invalid(l)

Spec == Init /\ [][Next]_vars

(***************************************************************************)
(* The methods of Record and AddressBook called directly, on the records   *)
(* of a store, together with the `add` and `change` commands.  The         *)
(* variables line, output, today, upcoming and call describe the last      *)
(* step only.                                                              *)
(***************************************************************************)
ApiLines ==
  {Join(<< W_add, Bob, P1 >>), Join(<< W_add, Bob, PShort >>),
   Join(<< W_add, Ann, PUnicode >>),
   Join(<< W_change, Bob, P1, P2 >>), Join(<< W_change, Bob, P2, PLong >>),
   Join(<< W_change, Ann, P1, P1 >>)}

Called(op, name, args, r, ret) ==
  /\ call' = [op |-> op, name |-> name, args |-> args, exc |-> r.exc,
              msg |-> r.msg, ret |-> ret]
  /\ line' = << >>
  /\ output' = << >>
  /\ today' = NoToday
  /\ upcoming' = NoUpcoming
  /\ pc' = pc

\* book.add_record(Record(name))
ApiNewRecord(name) ==
  /\ book' = add_record(book, Record(name))
  /\ Called("add_record", name, << >>, Returns(<< >>), << >>)

ApiAddPhone(name, phone) ==
  /\ name \in Keys(book)
  /\ LET r == add_phone(find(book, name).rec, phone)
     IN  /\ Len(r.value.phones) <= MaxPhones
         /\ book' = Mutated(book, name, r.value)
         /\ Called("add_phone", name, << phone >>, r, << >>)

ApiRemovePhone(name, phone) ==
  /\ name \in Keys(book)
  /\ book' = Mutated(book, name, remove_phone(find(book, name).rec, phone))
  /\ Called("remove_phone", name, << phone >>, Returns(<< >>), << >>)

ApiEditPhone(name, old_phone, new_phone) ==
  /\ name \in Keys(book)
  /\ LET r == edit_phone(find(book, name).rec, old_phone, new_phone)
     IN  /\ book' = Mutated(book, name, r.value)
         /\ Called("edit_phone", name, << old_phone, new_phone >>, r, << >>)

ApiFindPhone(name, phone) ==
  /\ name \in Keys(book)
  /\ book' = book
  /\ Called("find_phone", name, << phone >>, Returns(<< >>),
            find_phone(find(book, name).rec, phone))

ApiDelete(name) ==
  /\ book' = delete(book, name)
  /\ Called("delete", name, << >>, Returns(<< >>), << >>)

ApiNext ==
  \/ \E l \in ApiLines : Add(l)
  \/ \E l \in ApiLines : Change(l)
  \/ ApiNewRecord(Ann)
  \/ \E p \in ApiPhoneInputs : ApiAddPhone(Ann, p)
  \/ \E p \in ApiPhoneInputs : ApiRemovePhone(Ann, p)
  \/ \E p \in ApiPhoneInputs, q \in ApiPhoneInputs : ApiEditPhone(Ann, p, q)
  \/ \E p \in ApiPhoneInputs : ApiFindPhone(Ann, p)
  \/ \E n \in Names : ApiDelete(n)

ApiSpec == Init /\ [][ApiNext]_vars

(***************************************************************************)
(* get_upcoming_birthdays as a function of the date and the store: the     *)
(* date is any day of NumYears years, Ann's birthday lies from MaxBack     *)
(* days before it to MaxAhead days after it, and Bob is absent, without a  *)
(* birthday, or born on 29 February, before or after Ann in the store.     *)
(***************************************************************************)
SchedYears == FirstYear..(FirstYear + NumYears - 1)

SchedTodays ==
  {MkDate(y, m, d) : y \in SchedYears, m \in 1..12, d \in 1..31}
    \cap {dt \in [year : SchedYears, month : 1..12, day : 1..31] :
            IsDate(dt.year, dt.month, dt.day)}

Contact(name, birthday) ==
  [key |-> name,
   rec |-> [name |-> name, phones |-> << P1 >>, birthday |-> birthday]]

\* the birthday, in the leap year 2000, that has its month and day k days
\* after now
BornNear(now, k) ==
  LET dt == AddDays(now, k) IN Strftime(MkDate(2000, dt.month, dt.day))

SchedBooks(now) ==
  UNION {{<< Contact(Ann, BornNear(now, k)) >>,
          << Contact(Ann, BornNear(now, k)), Contact(Bob, None) >>,
          << Contact(Ann, BornNear(now, k)), Contact(Bob, B_Leap) >>,
          << Contact(Bob, B_Leap), Contact(Ann, BornNear(now, k)) >>}
           : k \in (0 - MaxBack)..MaxAhead}

SchedInit ==
  /\ pc = "running"
  /\ line = << >>
  /\ output = << >>
  /\ call = NoCall
  /\ upcoming = NoUpcoming
  /\ today \in SchedTodays
  /\ book \in SchedBooks(today)

SchedBirthdays ==
  /\ line = << >>
  /\ Birthdays(<< W_birthdays >>, today)

SchedSpec == SchedInit /\ [][SchedBirthdays]_vars

(***************************************************************************)
(* Vocabulary of the properties, stated without the operators of the       *)
(* scheduler and of the validators.                                        *)
(***************************************************************************)
\* a string of exactly ten decimal digits
TenDigits(w) ==
  /\ Len(w) = 10
  /\ \A i \in 1..10 : w[i] \in DigitChars

\* the line read last has a first word
HasCommand(l) == parse_input(l) # << >>

BirthdaysRan == HasCommand(line) /\ Command(line) = W_birthdays

\* day number of the first date on or after now that has the month and the
\* day of the birthday
AnniversaryOrd(birthday, now) ==
  LET b     == Strptime(birthday).date
      years == {y \in now.year..(now.year + 8) :
                  /\ IsDate(y, b.month, b.day)
                  /\ ToOrdinal(MkDate(y, b.month, b.day)) >= ToOrdinal(now)}
      first == CHOOSE y \in years : \A z \in years : y <= z
  IN  ToOrdinal(MkDate(first, b.month, b.day))

DaysAhead(birthday, now) == AnniversaryOrd(birthday, now) - ToOrdinal(now)

Reported(name) ==
  /\ upcoming.exc = ""
  /\ \E i \in 1..Len(upcoming.value) : upcoming.value[i].name = name

\* day number of a printed DD.MM.YYYY date
PrintedOrd(s) == ToOrdinal(Strptime(s).date)

IsLeapDay(birthday) ==
  Strptime(birthday).date.month = 2 /\ Strptime(birthday).date.day = 29

\* the year the code places a 29 February anniversary in is not a leap
\* year: this year is none, or its 29 February is already past
PlacedInCommonYear(now) ==
  \/ ~IsLeap(now.year)
  \/ ToOrdinal(now) > ToOrdinal(MkDate(now.year, 2, 29))

(***************************************************************************)
(* Properties.                                                             *)
(***************************************************************************)

\* C1: after `birthdays`, a record without a birthday is not reported, and
\* a record with a birthday is reported if and only if the first occurrence
\* of its day and month on or after today is 0 to 7 days ahead.
C1_ReportedIffWithinSevenDays ==
  BirthdaysRan =>
    \A i \in 1..Len(book) :
      LET rec == book[i].rec
      IN  IF rec.birthday = None THEN ~Reported(rec.name)
          ELSE Reported(rec.name) <=> DaysAhead(rec.birthday, today) \in 0..7

\* C2: the congratulation date of every reported record is the anniversary
\* when that is a Monday to Friday, the anniversary + 2 days when it is a
\* Saturday and the anniversary + 1 day when it is a Sunday (a Monday in
\* both cases).
C2_WeekendMovesToMonday ==
  BirthdaysRan /\ upcoming.exc = "" =>
    \A i \in 1..Len(upcoming.value) :
      LET entry == upcoming.value[i]
          ann   == AnniversaryOrd(find(book, entry.name).rec.birthday, today)
          wd    == (ann + 6) % 7
          got   == PrintedOrd(entry.congratulation_date)
      IN  /\ Strptime(entry.congratulation_date).ok
          /\ wd <= 4 => got = ann
          /\ wd = 5 => got = ann + 2 /\ (got + 6) % 7 = 0
          /\ wd = 6 => got = ann + 1 /\ (got + 6) % 7 = 0

\* a reported anniversary on a Saturday and one on a Sunday, both moved
C2_Witness ==
  /\ BirthdaysRan
  /\ upcoming.exc = ""
  /\ \E i \in 1..Len(upcoming.value) :
       LET entry == upcoming.value[i]
           ann   == AnniversaryOrd(find(book, entry.name).rec.birthday, today)
       IN  /\ (ann + 6) % 7 = 5
           /\ PrintedOrd(entry.congratulation_date) = ann + 2

\* C3: edit_phone(old, new) raises "Phone must be 10 digits." when new is
\* not ten digits; else raises "Phone not found." when no stored phone
\* equals old; else returns, every phone that equalled old equals new, the
\* other phones and the order are unchanged, and find_phone(new) returns a
\* phone whose value is new.
C3_EditPhone ==
  [][call'.op = "edit_phone" =>
       LET old    == call'.args[1]
           new    == call'.args[2]
           before == find(book, call'.name).rec
           after  == find(book', call'.name).rec
       IN  IF ~TenDigits(new)
           THEN call'.exc = "ValueError"
                  /\ call'.msg = "Phone must be 10 digits."
           ELSE IF \A i \in 1..Len(before.phones) : before.phones[i] # old
           THEN call'.exc = "ValueError" /\ call'.msg = "Phone not found."
           ELSE /\ call'.exc = ""
                /\ Len(after.phones) = Len(before.phones)
                /\ \A i \in 1..Len(before.phones) :
                     after.phones[i] =
                       IF before.phones[i] = old THEN new
                       ELSE before.phones[i]
                /\ find_phone(after, new) = new]_vars

\* edit_phone has replaced both of two equal phones
C3_Witness ==
  /\ call.op = "edit_phone"
  /\ call.exc = ""
  /\ call.args[1] # call.args[2]
  /\ LET rec == find(book, call.name).rec
     IN  /\ Len(rec.phones) = 2
         /\ rec.phones[1] = call.args[2]
         /\ rec.phones[2] = call.args[2]

\* C4: `add` with a valid phone on a name in the store appends the phone to
\* that record (its earlier phones and its birthday are kept, an equal phone
\* is not removed), the store keeps its entries and holds exactly one entry
\* for the name, whose record name is its key; on a name not in the store it
\* adds one record that holds exactly that phone.
C4_AddAppendsToExisting ==
  [][(HasCommand(line') /\ Command(line') = W_add /\ Len(Args(line')) >= 2
        /\ TenDigits(Args(line')[2])) =>
       LET name  == Args(line')[1]
           phone == Args(line')[2]
       IN  IF name \in Keys(book)
           THEN /\ Len(book') = Len(book)
                /\ Cardinality({i \in 1..Len(book') : book'[i].key = name}) = 1
                /\ \A i \in 1..Len(book) :
                     /\ book'[i].key = book[i].key
                     /\ book'[i].rec.name = book'[i].key
                     /\ book'[i].rec.birthday = book[i].rec.birthday
                     /\ book'[i].rec.phones =
                          IF book[i].key = name
                          THEN Append(book[i].rec.phones, phone)
                          ELSE book[i].rec.phones
           ELSE book' = Append(book,
                  [key |-> name,
                   rec |-> [name |-> name, phones |-> << phone >>,
                            birthday |-> None]])]_vars

\* `add` has appended a second, equal phone to a record that has a birthday
C4_Witness ==
  /\ HasCommand(line)
  /\ Command(line) = W_add
  /\ Len(output) = 1
  /\ output[1].text = "Contact added/updated."
  /\ \E i \in 1..Len(book) :
       /\ book[i].key = Args(line)[1]
       /\ book[i].rec.birthday # None
       /\ book[i].rec.phones = << Args(line)[2], Args(line)[2] >>

\* C5: whatever line is read, the process does not fail: one message is
\* printed for the line, and the loop has ended only with the farewell.
C5_NoLineFailsTheProcess ==
  /\ pc \in {"running", "exited"}
  /\ Len(output) = 1
  /\ pc = "exited" => output[1].text = "Good bye!"
  /\ (pc = "running" /\ HasCommand(line) /\ Command(line) = W_unknown)
       => output[1].text = "Invalid command."

\* C6: every phone of every record is a string of ten digits; add_phone
\* with another value raises the validation error and appends nothing, and
\* add_phone with ten digits appends the value, present already or not.
C6_StoredPhonesAreTenDigits ==
  /\ [](\A i \in 1..Len(book) :
          \A j \in 1..Len(book[i].rec.phones) :
            TenDigits(book[i].rec.phones[j]))
  /\ [][call'.op = "add_phone" =>
          LET before == find(book, call'.name).rec
              after  == find(book', call'.name).rec
          IN  IF TenDigits(call'.args[1])
              THEN /\ call'.exc = ""
                   /\ after.phones = Append(before.phones, call'.args[1])
              ELSE /\ call'.exc = "ValueError"
                   /\ call'.msg = "Phone must be 10 digits."
                   /\ after.phones = before.phones]_vars

\* add_phone has appended a phone equal to one the record held
C6_Witness ==
  /\ call.op = "add_phone"
  /\ call.exc = ""
  /\ LET rec == find(book, call.name).rec
     IN  /\ Len(rec.phones) = 2
         /\ rec.phones[1] = rec.phones[2]
         /\ rec.phones[2] = call.args[1]

\* `change` with three arguments, `phone` with at least one and
\* `add-birthday` with two: the commands whose handler reads a name
NamesContact(l) ==
  /\ HasCommand(l)
  /\ \/ Command(l) = W_change /\ Len(Args(l)) = 3
     \/ Command(l) = W_phone /\ Len(Args(l)) >= 1
     \/ Command(l) = W_add_birthday /\ Len(Args(l)) = 2

\* C7: a step of the command loop removes no name from the store; it adds
\* a name only when the line is an `add` that succeeds, and then that name;
\* `change`, `phone` and `add-birthday` on a name not in the store print
\* "Contact not found." and leave the store as it was.
C7_NamesGrowOnlyByAdd ==
  [][/\ Keys(book) \subseteq Keys(book')
     /\ \A i \in 1..Len(book) : book'[i].key = book[i].key
     /\ Keys(book') # Keys(book) =>
          /\ HasCommand(line') /\ Command(line') = W_add
          /\ output' = << Msg("Contact added/updated.") >>
          /\ Keys(book') = Keys(book) \cup {Args(line')[1]}
     /\ (NamesContact(line') /\ Args(line')[1] \notin Keys(book)) =>
          /\ Len(output') = 1
          /\ output'[1].text = "Contact not found."
          /\ book' = book]_vars

\* `change` on a name not in a non-empty store was answered
\* "Contact not found."
C7_Witness ==
  /\ NamesContact(line)
  /\ Command(line) = W_change
  /\ book # << >>
  /\ Args(line)[1] \notin Keys(book)
  /\ output[1].text = "Contact not found."

\* C8: when the store holds a 29 February birthday and its anniversary is
\* placed in a year that is not a leap year, `birthdays` still produces its
\* list, with every other record whose anniversary is 0 to 7 days ahead.
C8_LeapDayBirthdayStillListed ==
  (/\ BirthdaysRan
   /\ PlacedInCommonYear(today)
   /\ \E i \in 1..Len(book) :
        book[i].rec.birthday # None /\ IsLeapDay(book[i].rec.birthday))
    => /\ upcoming.exc = ""
       /\ \A i \in 1..Len(book) :
            LET rec == book[i].rec
            IN  (/\ rec.birthday # None
                 /\ ~IsLeapDay(rec.birthday)
                 /\ DaysAhead(rec.birthday, today) \in 0..7)
                  => Reported(rec.name)

\* C9: a command answered with an error message leaves the store as it was.
C9_ErrorLeavesStoreUnchanged ==
  [][(Len(output') = 1 /\ output'[1].err) => book' = book]_vars

\* `add` with an invalid phone on a new name, answered with the error, and
\* no record for the name
C9_Witness ==
  /\ HasCommand(line)
  /\ Command(line) = W_add
  /\ Len(Args(line)) >= 2
  /\ Len(output) = 1
  /\ output[1].err
  /\ output[1].text = "Phone must be 10 digits."
  /\ Args(line)[1] \notin Keys(book)
  /\ book # << >>

\* C10: every congratulation date returned is a Monday to Friday, not
\* before today and not after today + 9 days, and no record is returned
\* twice.
C10_DatesAreWorkdaysWithinNineDays ==
  BirthdaysRan /\ upcoming.exc = "" =>
    /\ \A i \in 1..Len(upcoming.value) :
         LET got == PrintedOrd(upcoming.value[i].congratulation_date)
         IN  /\ Strptime(upcoming.value[i].congratulation_date).ok
             /\ (got + 6) % 7 \in 0..4
             /\ ToOrdinal(today) <= got
             /\ got <= ToOrdinal(today) + 9
    /\ \A i, j \in 1..Len(upcoming.value) :
         upcoming.value[i].name = upcoming.value[j].name => i = j

\* two records returned, one of them 9 days after today
C10_Witness ==
  /\ BirthdaysRan
  /\ upcoming.exc = ""
  /\ Len(upcoming.value) = 2
  /\ \E i \in 1..2 :
       PrintedOrd(upcoming.value[i].congratulation_date) = ToOrdinal(today) + 9

====
